---------------------------- MODULE Spec2Model ----------------------------
(***************************************************************************)
(* A model of server.js: the recordings REST service.  Four Express        *)
(* handlers (create, list, get-by-id, delete) run as interleaved async     *)
(* functions over two stores: the SQLite table `recordings` and the        *)
(* Supabase bucket "uploads".  A handler suspends at every await; between   *)
(* two awaits of one request any step of any other request may run.        *)
(***************************************************************************)
EXTENDS Integers, Sequences, FiniteSets, TLC

\* ------------------------------------------------------------------ bounds
\* Requests whose handlers may be running (suspended at an await) at once.
MaxInFlight == 2
\* INSERTs the model admits in one run.
MaxCreates == 2
\* Largest uploaded buffer, in bytes.
MaxSize == 1
\* The wall clock is modelled for seconds 0..MaxSec, each of ms 0..MaxMs.
MaxSec == 1
MaxMs == 0

\* ------------------------------------------------------------------- state
VARIABLES
    rows,      \* table recordings: a set of rows
    seq,       \* sqlite_sequence of recordings: the largest id ever assigned
    objects,   \* bucket "uploads": object name -> stored buffer
    now,       \* the wall clock, [sec, ms]
    reqs,      \* per connection: the request being handled, with the handler's locals
    res,       \* the request the last step answered, with its response (else Idle)
    up,        \* the Node process is running
    issued,    \* history: the ids INSERTs were given, in order
    gone,      \* history: the ids whose DELETE request was answered 200
    faulted    \* history: some store call reported an error or threw

vars == <<rows, seq, objects, now, reqs, res, up, issued, gone, faulted>>

Slots == 1..MaxInFlight

\* ----------------------------------------------------------- pure helpers
\* multer's memory storage: the req.file.buffer values, req.file.size being
\* the buffer's length.
Buffers == {[i \in 1..n |-> n] : n \in 1..MaxSize}

\* What a store call can do: return, return {error}, or reject/throw.
StorageOutcomes == {"ok", "error", "throw"}
DbOutcomes == {"ok", "throw"}

\* `recording-${Date.now()}.webm`
UniqueName(t) == <<"recording-", t.sec, t.ms, ".webm">>

\* supabase.storage.from("uploads").getPublicUrl(name).data.publicUrl,
\* as the list of its "/"-separated segments.
GetPublicUrl(name) ==
    <<"https:", "", "project.supabase.co", "storage", "v1", "object",
      "public", "uploads", name>>

\* recording.url.split("/").pop()
FileNameOfUrl(url) == url[Len(url)]

\* SQLite's CURRENT_TIMESTAMP: "YYYY-MM-DD HH:MM:SS", whole seconds.
CurrentTimestamp(t) == [fmt |-> "sql", sec |-> t.sec, ms |-> 0]

\* new Date().toISOString(): "YYYY-MM-DDTHH:MM:SS.mmmZ".
ToISOString(t) == [fmt |-> "iso", sec |-> t.sec, ms |-> t.ms]

Max(S) == CHOOSE x \in S : \A y \in S : y <= x

RowIds(table) == {row.id : row \in table}

\* The id an INSERT gets without AUTOINCREMENT: one more than the largest
\* rowid now in the table.
NextIdNoAutoincrement(table, sequence) ==
    IF table = {} THEN 1 ELSE Max(RowIds(table)) + 1

\* id INTEGER PRIMARY KEY AUTOINCREMENT: one more than the largest id the
\* table ever held.
NextId(table, sequence) == sequence + 1

\* INSERT INTO recordings (filename, url, filesize) VALUES (?, ?, ?)
InsertRow(table, sequence, filename, url, filesize, t) ==
    table \cup {[id |-> NextId(table, sequence), filename |-> filename,
                 url |-> url, filesize |-> filesize,
                 createdAt |-> CurrentTimestamp(t)]}

\* SELECT * FROM recordings WHERE id = ?  (db.get: the row or undefined),
\* as a sequence of at most one row.
SelectById(table, id) ==
    IF id \in RowIds(table)
    THEN <<CHOOSE row \in table : row.id = id>>
    ELSE <<>>

\* A DELETE that removes nothing.
DeleteNothing(table, id) == table

\* DELETE FROM recordings WHERE id = ?
DeleteById(table, id) == {row \in table : row.id # id}

\* ORDER BY x ASC
OrderedAsc(a, b) == a.createdAt.sec <= b.createdAt.sec

\* ORDER BY createdAt DESC: a may precede b.
OrderedDesc(a, b) == a.createdAt.sec >= b.createdAt.sec

\* The results SELECT * FROM recordings ORDER BY createdAt DESC may give:
\* every row once, sorted; rows of equal createdAt in any order.
SelectAllOrdered(table) ==
    {s \in [1..Cardinality(table) -> table] :
        /\ \A i, j \in DOMAIN s : i # j => s[i] # s[j]
        /\ \A i, j \in DOMAIN s : i < j => OrderedDesc(s[i], s[j])}

\* supabase.storage.from("uploads").upload(name, buffer), when it succeeds.
Upload(bucket, name, buffer) ==
    [n \in DOMAIN bucket \cup {name} |-> IF n = name THEN buffer ELSE bucket[n]]

\* supabase.storage.from("uploads").remove([name]), when it succeeds.
Remove(bucket, name) == [n \in DOMAIN bucket \ {name} |-> bucket[n]]

\* ------------------------------------------------------------- responses
NoJson == [message |-> "", error |-> "", recording |-> <<>>, list |-> <<>>]

ErrorJson(text) == [NoJson EXCEPT !.error = text]

\* res.status(code).json(json) / res.redirect(location): the handler ends.
Send(q, code, json, location) ==
    [q EXCEPT !.pc = "done", !.status = code, !.json = json,
              !.location = location, !.sent = @ + 1]

\* A request as Express hands it to its handler: file is req.file, as a
\* sequence of no buffer (undefined) or one.
NewRequest(kind, pc, id, file) ==
    [kind |-> kind, pc |-> pc, id |-> id, file |-> file,
     uniqueName |-> <<>>, recording |-> <<>>,
     calls |-> <<>>, changes |-> 0, err |-> "none",
     status |-> 0, json |-> NoJson, location |-> <<>>, sent |-> 0]

Call(q, what) == [q EXCEPT !.calls = Append(@, what)]

\* No request on the connection.
Idle == NewRequest("none", "idle", 0, <<>>)

\* The handler on connection r answers: q is the request as answered.
Finish(r, q) ==
    /\ reqs' = [reqs EXCEPT ![r] = Idle]
    /\ res' = q

\* The handler on connection r goes on to its next await.
Continue(r, q) ==
    /\ reqs' = [reqs EXCEPT ![r] = q]
    /\ res' = Idle

\* An await that rejects outside any try block: the rejection is unhandled
\* and Node ends the process; the request is never answered.
Uncaught(r, q, e, text) ==
    /\ reqs' = [reqs EXCEPT ![r] = [q EXCEPT !.err = e, !.pc = "crashed"]]
    /\ res' = Idle
    /\ up' = FALSE
    /\ faulted' = TRUE

\* catch (err) { console.error(...); res.status(500).json({ error }) }
Caught(r, q, e, text) ==
    /\ Finish(r, Send([q EXCEPT !.err = e], 500, ErrorJson(text), <<>>))
    /\ up' = up
    /\ faulted' = TRUE

\* ------------------------------------------------------------------- Init
Init ==
    /\ rows = {}
    /\ seq = 0
    /\ objects = <<>>
    /\ now = [sec |-> 0, ms |-> 0]
    /\ reqs = [s \in Slots |-> Idle]
    /\ res = Idle
    /\ up = TRUE
    /\ issued = <<>>
    /\ gone = {}
    /\ faulted = FALSE

Free(s) == reqs[s].pc = "idle"

InFlight(s) == ~Free(s)

\* Express hands a new request to its handler, which runs to its first
\* await (q is the request there) on the first connection with no request.
Accept(q) ==
    /\ up
    /\ \E s \in Slots :
        /\ Free(s)
        /\ \A t \in Slots : Free(t) => s <= t
        /\ IF q.pc = "done" THEN Finish(s, q) ELSE Continue(s, q)

\* The INSERTs done or still to be done by the handlers now running.
Creates == Len(issued) + Cardinality({s \in Slots : InFlight(s) /\ reqs[s].kind = "create"})

\* ----------------------------------------------------------------- create
\* The upload's error is dropped and the handler goes on to the INSERT.
UploadErrorIgnored(r, q) ==
    /\ Continue(r, Call([q EXCEPT !.err = "storageError", !.pc = "insert"], "db.run"))
    /\ faulted' = TRUE
    /\ up' = up

\* if (storageError) throw storageError, and the catch block's 500.
UploadFailed(r, q) == Caught(r, q, "storageError", "Failed to upload recording")

\* POST /api/recordings, up to the first await: the 400 for a missing file,
\* else the name from Date.now() and the upload call.
PostRecording ==
    /\ \E file \in {<<>>} \cup {<<buffer>> : buffer \in Buffers} :
        LET q == NewRequest("create", "upload", 0, file)
        IN  /\ file # <<>> => Creates < MaxCreates
            /\ Accept(IF file = <<>>
                      THEN Send(q, 400, ErrorJson("No file uploaded"), <<>>)
                      ELSE Call([q EXCEPT !.uniqueName = UniqueName(now)],
                                "storage.upload"))
    /\ UNCHANGED <<rows, seq, objects, now, up, issued, gone, faulted>>

\* The upload returns: on an error the catch block answers 500; else the
\* public url is built and the INSERT is issued.
UploadReturns(r) ==
    /\ up
    /\ reqs[r].kind = "create" /\ reqs[r].pc = "upload"
    /\ \E outcome \in StorageOutcomes :
        LET q == reqs[r] IN
        IF outcome = "ok"
        THEN /\ objects' = Upload(objects, q.uniqueName, q.file[1])
             /\ Continue(r, Call([q EXCEPT !.pc = "insert"], "db.run"))
             /\ UNCHANGED <<up, faulted>>
        ELSE /\ UploadFailed(r, q)
             /\ objects' = objects
    /\ UNCHANGED <<rows, seq, now, issued, gone>>

\* The INSERT returns: the row is in the table and the 201 carries
\* result.lastID with the handler's own name, url, size and new Date().
InsertReturns(r) ==
    /\ up
    /\ reqs[r].kind = "create" /\ reqs[r].pc = "insert"
    /\ \E outcome \in DbOutcomes :
        LET q == reqs[r]
            publicUrl == GetPublicUrl(q.uniqueName)
            size == Len(q.file[1])
            table == InsertRow(rows, seq, q.uniqueName, publicUrl, size, now)
            lastID == Max(RowIds(table \ rows))
        IN
        IF outcome = "ok"
        THEN /\ rows' = table
             /\ seq' = IF lastID > seq THEN lastID ELSE seq
             /\ issued' = Append(issued, lastID)
             /\ Finish(r,
                  Send([q EXCEPT !.changes = 1], 201,
                       [NoJson EXCEPT
                          !.message = "Recording uploaded successfully",
                          !.recording = <<[id |-> lastID,
                                           filename |-> q.uniqueName,
                                           url |-> publicUrl,
                                           filesize |-> size,
                                           createdAt |-> ToISOString(now)]>>],
                       <<>>))
             /\ UNCHANGED <<up, faulted>>
        ELSE /\ Caught(r, q, "dbError", "Failed to upload recording")
             /\ UNCHANGED <<rows, seq, issued>>
    /\ UNCHANGED <<objects, now, gone>>

\* ------------------------------------------------------------------- list
\* GET /api/recordings, up to its await.
GetRecordings ==
    /\ Accept(Call(NewRequest("list", "all", 0, <<>>), "db.all"))
    /\ UNCHANGED <<rows, seq, objects, now, up, issued, gone, faulted>>

\* The SELECT returns: 200 with the rows as read.
AllReturns(r) ==
    /\ up
    /\ reqs[r].kind = "list" /\ reqs[r].pc = "all"
    /\ \E outcome \in DbOutcomes :
        LET q == reqs[r] IN
        IF outcome = "ok"
        THEN /\ \E recordings \in SelectAllOrdered(rows) :
                  Finish(r, Send(q, 200, [NoJson EXCEPT !.list = recordings], <<>>))
             /\ UNCHANGED <<up, faulted>>
        ELSE Caught(r, q, "dbError", "Failed to fetch recordings")
    /\ UNCHANGED <<rows, seq, objects, now, issued, gone>>

\* -------------------------------------------------------------- get by id
\* GET /api/recordings/:id, up to its await.
GetRecordingById ==
    /\ \E id \in 1..MaxCreates :
        Accept(Call(NewRequest("get", "get", id, <<>>), "db.get"))
    /\ UNCHANGED <<rows, seq, objects, now, up, issued, gone, faulted>>

\* The SELECT returns: 404 when there is no row, else the redirect.
GetReturns(r) ==
    /\ up
    /\ reqs[r].kind = "get" /\ reqs[r].pc = "get"
    /\ \E outcome \in DbOutcomes :
        LET q == reqs[r]
            recording == SelectById(rows, q.id)
        IN
        IF outcome = "ok"
        THEN /\ Finish(r,
                  IF recording = <<>>
                  THEN Send(q, 404, ErrorJson("Recording not found"), <<>>)
                  ELSE Send([q EXCEPT !.recording = recording], 302, NoJson,
                            recording[1].url))
             /\ UNCHANGED <<up, faulted>>
        ELSE Caught(r, q, "dbError", "Failed to stream recording")
    /\ UNCHANGED <<rows, seq, objects, now, issued, gone>>

\* ----------------------------------------------------------------- delete
\* The lookup's result is not checked and the DELETE is issued.
LookupUnchecked(r, q) == Continue(r, Call([q EXCEPT !.pc = "dbdelete"], "db.run"))

\* if (!recording) return res.status(404).json(...)
NotFound(r, q) == Finish(r, Send(q, 404, ErrorJson("Recording not found"), <<>>))

\* The remove's error is dropped and the handler goes on to the DELETE.
RemoveErrorIgnored(r, q) ==
    /\ Continue(r, Call([q EXCEPT !.err = "storageError", !.pc = "dbdelete"], "db.run"))
    /\ faulted' = TRUE

\* if (storageError) { ...; return res.status(500).json(...) }
RemoveFailed(r, q) ==
    /\ Finish(r, Send([q EXCEPT !.err = "storageError"], 500,
                      ErrorJson("Failed to delete file from Supabase"), <<>>))
    /\ faulted' = TRUE

\* DELETE /api/recordings/:id, up to its first await.
DeleteRecording ==
    /\ \E id \in 1..MaxCreates :
        Accept(Call(NewRequest("delete", "lookup", id, <<>>), "db.get"))
    /\ UNCHANGED <<rows, seq, objects, now, up, issued, gone, faulted>>

\* The lookup returns: 404 when there is no row, else the object name is
\* taken from the row's url and the storage remove is issued.
LookupReturns(r) ==
    /\ up
    /\ reqs[r].kind = "delete" /\ reqs[r].pc = "lookup"
    /\ \E outcome \in DbOutcomes :
        LET q == reqs[r]
            recording == SelectById(rows, q.id)
        IN
        IF outcome = "ok"
        THEN /\ IF recording = <<>>
                THEN NotFound(r, q)
                ELSE Continue(r, Call([q EXCEPT !.recording = recording,
                                                !.pc = "remove"],
                                      "storage.remove"))
             /\ UNCHANGED <<up, faulted>>
        ELSE Caught(r, q, "dbError", "Failed to delete recording")
    /\ UNCHANGED <<rows, seq, objects, now, issued, gone>>

\* The storage remove returns: a reported error answers 500 and stops; a
\* rejection goes to the catch block; else the DELETE is issued.
RemoveReturns(r) ==
    /\ up
    /\ reqs[r].kind = "delete" /\ reqs[r].pc = "remove"
    /\ \E outcome \in StorageOutcomes :
        LET q == reqs[r]
            fileName == FileNameOfUrl(q.recording[1].url)
        IN
        CASE outcome = "ok" ->
               /\ objects' = Remove(objects, fileName)
               /\ Continue(r, Call([q EXCEPT !.pc = "dbdelete"], "db.run"))
               /\ UNCHANGED <<up, faulted>>
          [] outcome = "error" ->
               /\ RemoveFailed(r, q)
               /\ UNCHANGED <<objects, up>>
          [] OTHER ->
               /\ Caught(r, q, "thrown", "Failed to delete recording")
               /\ objects' = objects
    /\ UNCHANGED <<rows, seq, now, issued, gone>>

\* The DELETE returns: 200.
DeleteReturns(r) ==
    /\ up
    /\ reqs[r].kind = "delete" /\ reqs[r].pc = "dbdelete"
    /\ \E outcome \in DbOutcomes :
        LET q == reqs[r]
            table == DeleteById(rows, q.id)
        IN
        IF outcome = "ok"
        THEN /\ rows' = table
             /\ gone' = gone \cup {q.id}
             /\ Finish(r,
                  Send([q EXCEPT !.changes = Cardinality(rows) - Cardinality(table)],
                       200,
                       [NoJson EXCEPT !.message = "Recording deleted successfully"],
                       <<>>))
             /\ UNCHANGED <<up, faulted>>
        ELSE /\ Caught(r, q, "dbError", "Failed to delete recording")
             /\ UNCHANGED <<rows, gone>>
    /\ UNCHANGED <<seq, objects, now, issued>>

\* ------------------------------------------------------------------ clock
\* Time passes: the next millisecond of this second, or the next second.
Tick ==
    /\ up
    /\ \E t \in {[sec |-> now.sec, ms |-> now.ms + 1], [sec |-> now.sec + 1, ms |-> 0]} :
        /\ t.sec <= MaxSec /\ t.ms <= MaxMs
        /\ now' = t
    /\ res' = Idle
    /\ UNCHANGED <<rows, seq, objects, reqs, up, issued, gone, faulted>>

\* One step of the handler on connection r: the await it is suspended at
\* settles.
Resume(r) ==
    \/ UploadReturns(r)
    \/ InsertReturns(r)
    \/ AllReturns(r)
    \/ GetReturns(r)
    \/ LookupReturns(r)
    \/ RemoveReturns(r)
    \/ DeleteReturns(r)

Next ==
    \/ PostRecording
    \/ GetRecordings
    \/ GetRecordingById
    \/ DeleteRecording
    \/ \E r \in Slots : Resume(r)
    \/ Tick

Spec == Init /\ [][Next]_vars

\* Every store call eventually returns or throws, so every suspended
\* handler is eventually resumed.
FairSpec == Spec /\ \A r \in Slots : WF_vars(Resume(r))

\* ================================================================== claims
Answered(kind) == res.pc = "done" /\ res.kind = kind

Has(calls, what) == \E i \in DOMAIN calls : calls[i] = what

\* No Create or Delete handler is between its first and last await.
NoWriterInFlight == \A s \in Slots : reqs[s].kind \notin {"create", "delete"}

FileNames == {row.filename : row \in rows}

\* C1: whenever no Create or Delete is in flight and no store call has
\* failed, the filenames of the metadata rows are exactly the names of the
\* objects in the bucket.
C1_CrossStoreConsistent ==
    (NoWriterInFlight /\ ~faulted) => FileNames = DOMAIN objects

\* C2: no two metadata rows share a filename or a url (the names generated
\* by successful Creates all differ).
C2_UniqueNames ==
    \A a, b \in rows : a # b => (a.filename # b.filename /\ a.url # b.url)

\* C3 (as stated): a Delete answered 200 removed exactly one row, and the ids
\* of answered Deletes are in no row.
C3_DeleteRemovesExactlyOne ==
    /\ (Answered("delete") /\ res.status = 200) => res.changes = 1
    /\ gone \cap RowIds(rows) = {}

\* What the answers show once a Delete has been answered 200.
C3_State ==
    /\ (Answered("delete") /\ res.status = 200) =>
          /\ res.changes \in {0, 1}
          /\ res.recording # <<>>
          /\ res.calls = <<"db.get", "storage.remove", "db.run">>
          /\ res.id \in gone
    /\ gone \cap RowIds(rows) = {}
    /\ (Answered("get") /\ res.id \in gone) => res.status \in {404, 500}
    /\ (Answered("get") /\ res.id \in gone /\ res.err = "none") => res.status = 404
    /\ (Answered("list") /\ res.status = 200) =>
          \A i \in DOMAIN res.json.list : res.json.list[i].id \notin gone

\* The DELETE step of a Delete, and the lookup of a repeated one.
C3_Step ==
    \A r \in Slots :
        \* the DELETE of a Delete removes one row, or none when another
        \* Delete of the same id was answered 200 since the lookup
        /\ (reqs[r].pc = "dbdelete" /\ reqs'[r].pc = "idle" /\ res'.status = 200) =>
              /\ Cardinality(rows') = Cardinality(rows) - res'.changes
              /\ res'.changes = 0 <=> reqs[r].id \in gone
        \* a Delete whose lookup runs after the id's Delete was answered
        /\ (reqs[r].kind = "delete" /\ reqs[r].pc = "lookup" /\ reqs[r].id \in gone
              /\ reqs'[r] # reqs[r]) =>
              /\ reqs'[r].pc = "idle"
              /\ res'.status = IF res'.err = "none" THEN 404 ELSE 500

\* C3 (amended): a Delete answered 200 leaves no row with its id, having
\* removed one row, or none when a concurrent Delete of the same id removed
\* it first; from then on no List or get-by-id returns that id, and a
\* get-by-id or a repeated Delete answers 404 (500 when its lookup throws).
C3_DeleteRemovesRow == []C3_State /\ [][C3_Step]_vars

\* C3 witness: a Delete was answered 200 with one row removed, and a later
\* get-by-id of that id has been answered 404.
C3_Witness == Answered("get") /\ res.id \in gone /\ res.status = 404

\* What the answer of a Delete whose remove failed shows.
C4_State ==
    (Answered("delete") /\ res.err \in {"storageError", "thrown"}) =>
        /\ res.status = 500
        /\ res.calls = <<"db.get", "storage.remove">>
        /\ res.changes = 0
        /\ res.recording # <<>>

\* The step in which a failed remove is answered.
C4_Step ==
    \A r \in Slots :
        (reqs[r].pc = "remove" /\ reqs'[r].pc = "idle") =>
            /\ rows' = rows /\ seq' = seq /\ objects' = objects
            /\ res'.status = 500
            /\ res'.recording[1] \in rows => SelectById(rows', res'.id) = res'.recording

\* C4: a Delete whose storage remove reported an error is answered 500
\* having issued no DELETE and changed no row.
C4_DeleteFailedKeepsRow == []C4_State /\ [][C4_Step]_vars

\* C4 witness: a Delete answered 500 after the remove reported an error,
\* its row still in the table.
C4_Witness ==
    /\ Answered("delete") /\ res.err = "storageError" /\ res.status = 500
    /\ res.recording[1] \in rows

\* What the answer of a Delete that found no row shows.
C5_State ==
    (Answered("delete") /\ res.recording = <<>> /\ res.err = "none") =>
        /\ res.status = 404
        /\ res.calls = <<"db.get">>
        /\ res.changes = 0

\* The lookup step of a Delete whose id has no row.
C5_Step ==
    \A r \in Slots :
        (reqs[r].kind = "delete" /\ reqs[r].pc = "lookup" /\ reqs'[r] # reqs[r]
            /\ reqs[r].id \notin RowIds(rows)) =>
            /\ reqs'[r].pc = "idle"
            /\ res'.status = IF res'.err = "none" THEN 404 ELSE 500
            /\ rows' = rows /\ seq' = seq /\ objects' = objects

\* C5: a Delete that finds no row is answered 404 having called only the
\* lookup, and its step changes neither the table nor the bucket.
C5_DeleteMissingIsNoop == []C5_State /\ [][C5_Step]_vars

\* C5 witness: a Delete of an id with no row has been answered 404 while
\* the table and the bucket hold a recording.
C5_Witness ==
    /\ Answered("delete") /\ res.status = 404
    /\ rows # {} /\ DOMAIN objects # {}

\* C6: the ids given by INSERTs start at 1 and strictly increase, whatever
\* was deleted in between, and a Create's 201 carries the id just given.
C6_IdsIncrease ==
    /\ \A i, j \in DOMAIN issued : i < j => issued[i] < issued[j]
    /\ issued # <<>> => issued[1] = 1
    /\ (Answered("create") /\ res.status = 201) =>
          res.json.recording[1].id = issued[Len(issued)]

\* C6 witness: a Create got an id after the row of an earlier id was
\* deleted.
C6_Witness ==
    /\ Answered("create") /\ res.status = 201
    /\ Len(issued) = 2 /\ issued[1] \in gone

TimestampsDistinct(table) ==
    \A a, b \in table : a # b => a.createdAt # b.createdAt

\* The step in which a List is answered.
C7_Step ==
    \A r \in Slots :
        (reqs[r].pc = "all" /\ reqs'[r].pc = "idle") =>
            LET list == res'.json.list IN
            IF res'.err = "none"
            THEN /\ res'.status = 200
                 /\ Len(list) = Cardinality(rows)
                 /\ {list[i] : i \in DOMAIN list} = rows
                 /\ \A i, j \in DOMAIN list :
                       i < j => list[i].createdAt.sec >= list[j].createdAt.sec
                 /\ TimestampsDistinct(rows) =>
                       \A i, j \in DOMAIN list : i < j => list[i].id > list[j].id
            ELSE res'.status = 500

\* C7: the step in which a List is answered gives 200 with every row of the
\* table once, createdAt descending; with distinct timestamps that is the
\* reverse of the insertion order; only a throwing SELECT gives 500.
C7_ListNewestFirst == [][C7_Step]_vars

\* C7 witness: a List answered with two rows of different timestamps.
C7_Witness ==
    /\ Answered("list") /\ res.status = 200
    /\ Len(res.json.list) = 2
    /\ res.json.list[1].createdAt # res.json.list[2].createdAt

\* What the answer of a failed Create shows.
C8_State ==
    /\ (Answered("create") /\ res.status # 201) =>
          /\ res.changes = 0
          /\ res.status \in {400, 500}
          /\ ~Has(res.calls, "db.run") \/ res.err = "dbError"
    /\ (Answered("create") /\ res.file = <<>>) =>
          res.status = 400 /\ res.calls = <<>>
    /\ (Answered("create") /\ res.err = "storageError") =>
          res.status = 500 /\ res.calls = <<"storage.upload">>

\* The step in which a failed Create is answered.
C8_Step ==
    (res'.pc = "done" /\ res'.kind = "create" /\ res'.status # 201) =>
        /\ rows' = rows /\ seq' = seq
        /\ res'.status = 400 => objects' = objects

\* C8: a Create that is not answered 201 inserted no row: without a file it
\* is answered 400 having called no store; when the upload failed it is
\* answered 500 having issued no INSERT; the step that answers it leaves the
\* table as it is.
C8_FailedCreateInsertsNothing == []C8_State /\ [][C8_Step]_vars

\* C8 witness: a Create answered 500 after its upload reported an error.
C8_Witness ==
    Answered("create") /\ res.err = "storageError" /\ res.status = 500

\* C9: the recording in a Create's 201 is, field for field, the row the
\* table holds for that id.
C9_ReturnsStoredRow ==
    (Answered("create") /\ res.status = 201) =>
        LET row == SelectById(rows, res.json.recording[1].id) IN
        row # <<>> => res.json.recording = row

Statuses == {200, 201, 302, 400, 404, 500}

\* Responses sent so far: none by a running handler, one per answer.
C10_State ==
    /\ up
    /\ \A s \in Slots : reqs[s].sent = 0 /\ reqs[s].pc # "done"
    /\ res.pc = "done" => (res.sent = 1 /\ res.status \in Statuses)

\* C10: every request gets one response, never two: a running handler has
\* sent none, an answered request exactly one, every handler suspended at a
\* store call is eventually answered, and the process stays up.
C10_OneResponse ==
    /\ []C10_State
    /\ \A s \in Slots : InFlight(s) ~> Free(s)

\* C10 witness: a request answered 201 after a store call of another
\* request failed.
C10_Witness ==
    faulted /\ up /\ Answered("create") /\ res.status = 201 /\ res.err = "none"

=============================================================================
